---- MODULE Spec2Model ----
(***************************************************************************)
(* Model of scripts/faster_whisper_transcribe.py: the command-line entry   *)
(* point (argument check, defaults, file existence check, print) and       *)
(* transcribe_audio (import of the runtime, session construction, the      *)
(* inference call, the loop over the lazy segment sequence, the join, and  *)
(* the two exception handlers).                                            *)
(*                                                                         *)
(* A text is a sequence of one-character strings.  The external runtime is *)
(* the environment: it decides whether the import succeeds, whether a call *)
(* raises, and which segment the lazy sequence yields next.                *)
(***************************************************************************)
EXTENDS Integers, Sequences, FiniteSets, TLC

(* ---------------------------- bounds ---------------------------------- *)
\* most segments the runtime yields in one run
MaxSegs == 3
\* most characters the runtime yields in one run, over all segments
MaxChars == 4
\* largest len(sys.argv), program name included
MaxArgc == 5

(* ---------------------------- inputs ---------------------------------- *)
\* characters of a segment text: a letter, a space, a line break
Chars == {"a", " ", "\n"}
\* candidate values of sys.argv[1], sys.argv[2], sys.argv[3] and of the rest
AudioArgs == {"sample.wav", "missing.wav"}
ModelArgs == {"tiny", "bogus"}
LangArgs == {"es"}
ExtraArgs == {"extra"}
\* the paths for which os.path.exists answers True
ExistingFiles == {"sample.wav"}
\* str(e) of an exception the runtime raises
ErrTexts == {"boom"}

\* the argument vectors a run may start with (TLA+ index i is sys.argv[i-1])
ArgvOfLen(n) ==
    { a \in [1..n -> {"prog"} \cup AudioArgs \cup ModelArgs \cup LangArgs \cup ExtraArgs] :
        /\ a[1] = "prog"
        /\ n >= 2 => a[2] \in AudioArgs
        /\ n >= 3 => a[3] \in ModelArgs
        /\ n >= 4 => a[4] \in LangArgs
        /\ \A i \in 5..n : a[i] \in ExtraArgs }

Argvs == UNION { ArgvOfLen(n) : n \in 1..MaxArgc }

\* every text of exactly n characters, and of at most n characters
TextsOfLen(n) == [1..n -> Chars]
TextsUpTo(n) == UNION { TextsOfLen(k) : k \in 0..n }

(* --------------------------- str methods ------------------------------ *)
\* str.isspace for one character
IsSpace(c) == c \in {" ", "\n"}

RECURSIVE LStrip(_)
LStrip(s) ==
    IF s = <<>> THEN <<>>
    ELSE IF IsSpace(Head(s)) THEN LStrip(Tail(s))
    ELSE s

RECURSIVE RStrip(_)
RStrip(s) ==
    IF s = <<>> THEN <<>>
    ELSE IF IsSpace(s[Len(s)]) THEN RStrip(SubSeq(s, 1, Len(s) - 1))
    ELSE s

\* str.strip() with no argument
Strip(s) == RStrip(LStrip(s))

\* ' '.join(parts)
RECURSIVE Join(_)
Join(parts) ==
    IF parts = <<>> THEN <<>>
    ELSE IF Len(parts) = 1 THEN parts[1]
    ELSE Head(parts) \o <<" ">> \o Join(Tail(parts))

\* a slip: the joined string is returned without the final strip
ReturnValueNoStrip(parts) == Join(parts)

\* the value of the return statement
ReturnValue(parts) == Strip(Join(parts))

(* ------------------------- standard streams --------------------------- *)
\* one print(..., file=sys.stderr): which diagnostic, which of its lines, its argument
ErrLine(kind, n, arg) == [kind |-> kind, line |-> n, arg |-> arg]

UsageLines ==
    << ErrLine("usage", 1, ""), ErrLine("usage", 2, ""), ErrLine("usage", 3, "") >>

NotFoundLine(path) == ErrLine("not_found", 1, path)
InstallLine == ErrLine("install", 1, "")
TranscribeErrorLine(e) == ErrLine("transcribing", 1, e)

\* a slip: print(x, end='')
PrintTextNoLineBreak(s) == s

\* print(x): the text followed by a line break
PrintText(s) == s \o <<"\n">>

\* the runtime calls the program makes
ConstructCall(size) ==
    [op |-> "WhisperModel", arg |-> size, device |-> "cpu", compute_type |-> "int8"]
InferenceCall(path, lang) ==
    [op |-> "transcribe", arg |-> path, language |-> lang]

(* ------------------------------ state --------------------------------- *)
VARIABLES
    argv,              \* sys.argv
    pc,                \* the statement the run is at
    audio_file,        \* module-level locals, "" until assigned
    model_size,
    language,
    calls,             \* the calls made to the runtime, in order
    segments,          \* the texts the lazy sequence has yielded, in order
    transcript_parts,  \* the list built by the loop
    transcript,        \* the value transcribe_audio returned
    stdout,            \* characters written to standard output
    stderr,            \* lines written to standard error
    exit_code,         \* -1 while the process runs
    error              \* the exception raised inside the try block, if any

vars == << argv, pc, audio_file, model_size, language, calls, segments,
           transcript_parts, transcript, stdout, stderr, exit_code, error >>

\* no exception has been raised
NoError == [at |-> "", type |-> "", text |-> ""]

Init ==
    /\ argv \in Argvs
    /\ pc = "main"
    /\ audio_file = ""
    /\ model_size = ""
    /\ language = ""
    /\ calls = <<>>
    /\ segments = <<>>
    /\ transcript_parts = <<>>
    /\ transcript = <<>>
    /\ stdout = <<>>
    /\ stderr = <<>>
    /\ exit_code = -1
    /\ error = NoError

\* sys.exit(1) after printing the lines to standard error
ExitWith(lines) ==
    /\ stderr' = stderr \o lines
    /\ exit_code' = 1
    /\ pc' = "exited"

\* a slip: the ImportError clause is missing (or comes after the general
\* one), so the general handler takes the ImportError
HandleImportErrorAsGeneric == ExitWith(<< TranscribeErrorLine("No module named") >>)

\* except ImportError: the install instruction, sys.exit(1)
HandleImportError == ExitWith(<< InstallLine >>)

\* except Exception as e: str(e) in the message, sys.exit(1)
HandleException(e) == ExitWith(<< TranscribeErrorLine(e) >>)

\* the statement at pc raises inside the try block: an ImportError, or any
\* other Exception with text e
Raises ==
    \/ /\ error' = [at |-> pc, type |-> "ImportError", text |-> ""]
       /\ HandleImportError
    \/ \E e \in ErrTexts :
          /\ error' = [at |-> pc, type |-> "Exception", text |-> e]
          /\ HandleException(e)

(* ----------------------------- __main__ ------------------------------- *)
\* a slip: the usage branch ends with sys.exit(0)
UsageExitZero ==
    /\ pc = "main"
    /\ Len(argv) < 2
    /\ stderr' = stderr \o UsageLines
    /\ exit_code' = 0
    /\ pc' = "exited"
    /\ UNCHANGED << argv, audio_file, model_size, language, calls, segments,
                    transcript_parts, transcript, stdout, error >>

\* len(sys.argv) < 2: the usage message, exit 1
Usage ==
    /\ pc = "main"
    /\ Len(argv) < 2
    /\ ExitWith(UsageLines)
    /\ UNCHANGED << argv, audio_file, model_size, language, calls, segments,
                    transcript_parts, transcript, stdout, error >>

\* a slip: the two optional arguments are tested one position too far
ParseArgsOffByOne ==
    /\ pc = "main"
    /\ Len(argv) >= 2
    /\ audio_file' = argv[2]
    /\ model_size' = IF Len(argv) > 3 THEN argv[3] ELSE "base"
    /\ language' = IF Len(argv) > 4 THEN argv[4] ELSE "en"
    /\ pc' = "exists"
    /\ UNCHANGED << argv, calls, segments, transcript_parts, transcript,
                    stdout, stderr, exit_code, error >>

\* the three assignments from sys.argv, with the defaults
ParseArgs ==
    /\ pc = "main"
    /\ Len(argv) >= 2
    /\ audio_file' = argv[2]
    /\ model_size' = IF Len(argv) > 2 THEN argv[3] ELSE "base"
    /\ language' = IF Len(argv) > 3 THEN argv[4] ELSE "en"
    /\ pc' = "exists"
    /\ UNCHANGED << argv, calls, segments, transcript_parts, transcript,
                    stdout, stderr, exit_code, error >>

\* a slip: the message is printed but sys.exit(1) is missing, so the run
\* goes on to call transcribe_audio
FileNotFoundNoExit ==
    /\ pc = "exists"
    /\ audio_file \notin ExistingFiles
    /\ stderr' = stderr \o << NotFoundLine(audio_file) >>
    /\ pc' = "import"
    /\ UNCHANGED << argv, audio_file, model_size, language, calls, segments,
                    transcript_parts, transcript, stdout, exit_code, error >>

\* os.path.exists(audio_file) is false
FileNotFound ==
    /\ pc = "exists"
    /\ audio_file \notin ExistingFiles
    /\ ExitWith(<< NotFoundLine(audio_file) >>)
    /\ UNCHANGED << argv, audio_file, model_size, language, calls, segments,
                    transcript_parts, transcript, stdout, error >>

\* os.path.exists(audio_file) is true: transcribe_audio is called
CallTranscribe ==
    /\ pc = "exists"
    /\ audio_file \in ExistingFiles
    /\ pc' = "import"
    /\ UNCHANGED << argv, audio_file, model_size, language, calls, segments,
                    transcript_parts, transcript, stdout, stderr, exit_code, error >>

\* print(transcript), then the script ends
PrintTranscript ==
    /\ pc = "print"
    /\ stdout' = stdout \o PrintText(transcript)
    /\ exit_code' = 0
    /\ pc' = "exited"
    /\ UNCHANGED << argv, audio_file, model_size, language, calls, segments,
                    transcript_parts, transcript, stderr, error >>

(* -------------------------- transcribe_audio -------------------------- *)
\* from faster_whisper import WhisperModel
ImportOk ==
    /\ pc = "import"
    /\ pc' = "construct"
    /\ UNCHANGED << argv, audio_file, model_size, language, calls, segments,
                    transcript_parts, transcript, stdout, stderr, exit_code, error >>

ImportFails ==
    /\ pc = "import"
    /\ Raises
    /\ UNCHANGED << argv, audio_file, model_size, language, calls, segments,
                    transcript_parts, transcript, stdout >>

\* model = WhisperModel(model_size, device="cpu", compute_type="int8")
ConstructOk ==
    /\ pc = "construct"
    /\ calls' = Append(calls, ConstructCall(model_size))
    /\ pc' = "inference"
    /\ UNCHANGED << argv, audio_file, model_size, language, segments,
                    transcript_parts, transcript, stdout, stderr, exit_code, error >>

ConstructFails ==
    /\ pc = "construct"
    /\ calls' = Append(calls, ConstructCall(model_size))
    /\ Raises
    /\ UNCHANGED << argv, audio_file, model_size, language, segments,
                    transcript_parts, transcript, stdout >>

\* segments, info = model.transcribe(audio_path, language=language, ...)
InferenceOk ==
    /\ pc = "inference"
    /\ calls' = Append(calls, InferenceCall(audio_file, language))
    /\ pc' = "iterate"
    /\ UNCHANGED << argv, audio_file, model_size, language, segments,
                    transcript_parts, transcript, stdout, stderr, exit_code, error >>

InferenceFails ==
    /\ pc = "inference"
    /\ calls' = Append(calls, InferenceCall(audio_file, language))
    /\ Raises
    /\ UNCHANGED << argv, audio_file, model_size, language, segments,
                    transcript_parts, transcript, stdout >>

\* characters the lazy sequence has yielded so far
RECURSIVE TotalLen(_)
TotalLen(texts) ==
    IF texts = <<>> THEN 0 ELSE Len(Head(texts)) + TotalLen(Tail(texts))

\* a slip: the new part goes to the front of the list
AppendPartFront(parts, text) == << Strip(text) >> \o parts

\* transcript_parts.append(segment.text.strip())
AppendPart(parts, text) == Append(parts, Strip(text))

\* a slip: each part is printed as soon as it is read
NextSegmentStreaming ==
    /\ pc = "iterate"
    /\ Len(segments) < MaxSegs
    /\ \E text \in TextsUpTo(MaxChars - TotalLen(segments)) :
          /\ segments' = Append(segments, text)
          /\ transcript_parts' = AppendPart(transcript_parts, text)
          /\ stdout' = stdout \o PrintText(Strip(text))
    /\ UNCHANGED << argv, pc, audio_file, model_size, language, calls,
                    transcript, stderr, exit_code, error >>

\* one turn of the for loop: the sequence yields a segment
NextSegment ==
    /\ pc = "iterate"
    /\ Len(segments) < MaxSegs
    /\ \E text \in TextsUpTo(MaxChars - TotalLen(segments)) :
          /\ segments' = Append(segments, text)
          /\ transcript_parts' = AppendPart(transcript_parts, text)
    /\ UNCHANGED << argv, pc, audio_file, model_size, language, calls,
                    transcript, stdout, stderr, exit_code, error >>

\* a slip: a failure of the sequence is retried by a second inference call
SegmentFailsRetry ==
    /\ pc = "iterate"
    /\ pc' = "inference"
    /\ UNCHANGED << argv, audio_file, model_size, language, calls, segments,
                    transcript_parts, transcript, stdout, stderr, exit_code, error >>

\* the sequence raises while the loop asks for the next segment
SegmentFails ==
    /\ pc = "iterate"
    /\ Raises
    /\ UNCHANGED << argv, audio_file, model_size, language, calls, segments,
                    transcript_parts, transcript, stdout >>

\* a slip: an empty list of parts is reported as a failure
ReturnTranscriptEmptyIsError ==
    /\ pc = "iterate"
    /\ IF transcript_parts = <<>>
       THEN /\ ExitWith(<< TranscribeErrorLine("no speech") >>)
            /\ UNCHANGED transcript
       ELSE /\ transcript' = ReturnValue(transcript_parts)
            /\ pc' = "print"
            /\ UNCHANGED << stderr, exit_code >>
    /\ UNCHANGED << argv, audio_file, model_size, language, calls, segments,
                    transcript_parts, stdout, error >>

\* the sequence is exhausted: the loop ends and the function returns
ReturnTranscript ==
    /\ pc = "iterate"
    /\ transcript' = ReturnValue(transcript_parts)
    /\ pc' = "print"
    /\ UNCHANGED << argv, audio_file, model_size, language, calls, segments,
                    transcript_parts, stdout, stderr, exit_code, error >>

Next ==
    \/ Usage
    \/ ParseArgs
    \/ FileNotFound
    \/ CallTranscribe
    \/ ImportOk
    \/ ImportFails
    \/ ConstructOk
    \/ ConstructFails
    \/ InferenceOk
    \/ InferenceFails
    \/ NextSegment
    \/ SegmentFails
    \/ ReturnTranscript
    \/ PrintTranscript

Spec == Init /\ [][Next]_vars

(* ------------------------ vocabulary of the claims -------------------- *)
\* the text between the first and the last non-whitespace character of s
TrimOf(s) ==
    LET keep == { i \in 1..Len(s) : ~IsSpace(s[i]) }
    IN  IF keep = {} THEN <<>>
        ELSE SubSeq(s, CHOOSE i \in keep : \A j \in keep : i <= j,
                       CHOOSE i \in keep : \A j \in keep : j <= i)

\* the texts in order, exactly one space between consecutive ones
RECURSIVE SpaceSeparated(_)
SpaceSeparated(ts) ==
    IF Len(ts) = 0 THEN <<>>
    ELSE IF Len(ts) = 1 THEN ts[1]
    ELSE SpaceSeparated(SubSeq(ts, 1, Len(ts) - 1)) \o <<" ">> \o ts[Len(ts)]

\* the transcript the contract promises for the segments yielded so far
ExpectedTranscript ==
    TrimOf(SpaceSeparated([i \in 1..Len(segments) |-> TrimOf(segments[i])]))

\* number of line breaks in a text
LineBreaks(s) == Cardinality({ i \in 1..Len(s) : s[i] = "\n" })

\* transcribe_audio has returned normally
Returned == pc = "print" \/ (pc = "exited" /\ Len(calls) = 2 /\ error = NoError)

\* the command line names an audio file that does not exist
MissingFile == Len(argv) >= 2 /\ argv[2] \notin ExistingFiles

\* the state names of the specification's state machine
Phase ==
    CASE pc \in {"main", "exists", "import", "construct"} -> "NotStarted"
      [] pc = "inference" -> "SessionConstructed"
      [] pc = "iterate" -> "InferenceIssued"
      [] pc = "print" -> "SegmentsConsumed"
      [] pc = "exited" /\ exit_code = 0 -> "Done"
      [] OTHER -> "Failed"

(* ------------------------------ claims -------------------------------- *)
\* C1: when transcribe_audio returns, its result is the trimmed segment
\* texts, in the order the runtime yielded them, one space between
\* consecutive ones, the whole trimmed once more; every segment yielded has
\* exactly one part, at its own position.
C1_TranscriptIsTrimmedJoin ==
    Returned =>
        /\ transcript = ExpectedTranscript
        /\ Len(transcript_parts) = Len(segments)
        /\ \A i \in 1..Len(segments) : transcript_parts[i] = TrimOf(segments[i])

\* the run of the example ["Hello", " world "]: a bare word, then a padded one
C1_Witness ==
    /\ Returned
    /\ segments = << <<"a">>, <<" ", "a", " ">> >>
    /\ transcript = <<"a", " ", "a">>

\* C2: a run whose audio file does not exist makes no call to the runtime,
\* never enters transcribe_audio, writes nothing to standard output, and
\* ends with exit code 1 and the one message that names the path.
C2_MissingFileNeverTranscribes ==
    MissingFile =>
        /\ calls = <<>>
        /\ stdout = <<>>
        /\ pc \in {"main", "exists", "exited"}
        /\ error = NoError
        /\ pc = "exited" =>
              /\ exit_code = 1
              /\ stderr = << NotFoundLine(argv[2]) >>

C2_Witness ==
    /\ MissingFile
    /\ pc = "exited"
    /\ stderr # <<>>

C4_ErrorsAreTerminalAndSilent ==
    /\ error # NoError => pc = "exited" /\ exit_code = 1
    /\ exit_code = 1 =>
          /\ pc = "exited"
          /\ stdout = <<>>
          /\ Cardinality({ stderr[i].kind : i \in 1..Len(stderr) }) = 1
          /\ stderr = IF Len(argv) < 2 THEN UsageLines
                      ELSE IF MissingFile THEN << NotFoundLine(argv[2]) >>
                      ELSE IF error.type = "ImportError" THEN << InstallLine >>
                      ELSE << TranscribeErrorLine(error.text) >>
          /\ (Len(argv) >= 2 /\ ~MissingFile) => error # NoError
    /\ pc # "exited" => stderr = <<>> /\ stdout = <<>>

\* the sequence raised after a segment had been read
C4_Witness ==
    /\ exit_code = 1
    /\ error.at = "iterate"
    /\ Len(segments) >= 1
    /\ transcript_parts # <<>>

\* C5 as stated: a run that ended with exit code 0 wrote exactly one line.
C5_SingleLineAlways ==
    exit_code = 0 => LineBreaks(stdout) = 1

\* C5, amended: a run that ended with exit code 0 wrote the transcript
\* followed by one line break and nothing else; that output is one line
\* exactly when no segment text has a line break inside its trimmed text.
C5_OnePrintOfTranscript ==
    exit_code = 0 =>
        /\ stdout = ExpectedTranscript \o <<"\n">>
        /\ stderr = <<>>
        /\ LineBreaks(stdout) = 1
              <=> \A i \in 1..Len(segments) : LineBreaks(TrimOf(segments[i])) = 0

\* a successful run whose transcript spans two lines
C5_Witness ==
    /\ exit_code = 0
    /\ LineBreaks(transcript) >= 1
    /\ LineBreaks(stdout) = 2

\* C6: when the sequence ends without having yielded a segment, the value
\* returned is the empty string, nothing is on standard error, and the run
\* ends with exit code 0 having printed the empty line.
C6_ZeroSegmentsIsSuccess ==
    /\ (pc = "print" /\ segments = <<>>) =>
          /\ transcript = <<>>
          /\ stderr = <<>>
          /\ exit_code = -1
    /\ (pc = "exited" /\ Len(calls) = 2 /\ segments = <<>> /\ error = NoError) =>
          /\ transcript = <<>>
          /\ exit_code = 0
          /\ stderr = <<>>
          /\ stdout = <<"\n">>

C6_Witness ==
    /\ pc = "exited"
    /\ Len(calls) = 2
    /\ segments = <<>>
    /\ error = NoError

\* C7: the returned transcript neither starts nor ends with whitespace, and
\* trimming it again gives the same text.
C7_NoOuterWhitespace ==
    Returned =>
        /\ transcript # <<>> =>
              /\ ~IsSpace(transcript[1])
              /\ ~IsSpace(transcript[Len(transcript)])
        /\ TrimOf(transcript) = transcript

\* a return where the final strip removed something the join had left
C7_Witness ==
    /\ Returned
    /\ transcript # <<>>
    /\ Join(transcript_parts) # transcript

\* C8: a run started with the program name alone never reaches the
\* existence check or transcribe_audio, calls no runtime operation, writes
\* nothing to standard output, and ends with exit code 1 and the usage
\* message on standard error.
C8_NoArgumentsIsUsageError ==
    Len(argv) < 2 =>
        /\ pc \in {"main", "exited"}
        /\ audio_file = ""
        /\ calls = <<>>
        /\ stdout = <<>>
        /\ error = NoError
        /\ pc = "exited" =>
              /\ exit_code = 1
              /\ stderr = UsageLines

C8_Witness ==
    /\ Len(argv) = 1
    /\ pc = "exited"
    /\ stderr # <<>>

\* C9: the session is constructed with sys.argv[2] when it is given and
\* with 'base' otherwise, the inference call gets sys.argv[1] and the
\* language sys.argv[3] when it is given and 'en' otherwise; the values are
\* whatever was typed, and no later argument has any effect on the calls.
C9_ArgumentsPassThrough ==
    \A i \in 1..Len(calls) :
        /\ calls[i].op = "WhisperModel" =>
              calls[i].arg = (IF Len(argv) >= 3 THEN argv[3] ELSE "base")
        /\ calls[i].op = "transcribe" =>
              /\ calls[i].arg = argv[2]
              /\ calls[i].language = (IF Len(argv) >= 4 THEN argv[4] ELSE "en")

\* a model size the runtime does not know, a language, and one argument more
C9_Witness ==
    /\ Len(argv) = 5
    /\ Len(calls) = 2
    /\ calls[1].arg = "bogus"
    /\ calls[2].language = "es"

\* the steps the specification's state machine allows
PhaseSteps ==
    { <<"NotStarted", "NotStarted">>, <<"NotStarted", "SessionConstructed">>,
      <<"SessionConstructed", "InferenceIssued">>,
      <<"InferenceIssued", "InferenceIssued">>,
      <<"InferenceIssued", "SegmentsConsumed">>,
      <<"SegmentsConsumed", "Done">>,
      <<"NotStarted", "Failed">>, <<"SessionConstructed", "Failed">>,
      <<"InferenceIssued", "Failed">> }

\* what each state of the path has done so far
PhaseShape ==
    /\ Phase = "NotStarted" => calls = <<>> /\ segments = <<>>
    /\ Phase = "SessionConstructed" =>
          Len(calls) = 1 /\ calls[1].op = "WhisperModel" /\ segments = <<>>
    /\ Phase \in {"InferenceIssued", "SegmentsConsumed", "Done"} =>
          /\ Len(calls) = 2
          /\ calls[1].op = "WhisperModel"
          /\ calls[2].op = "transcribe"
    /\ Len(calls) <= 2
    /\ \A i, j \in 1..Len(calls) : calls[i].op = calls[j].op => i = j
    /\ Len(transcript_parts) = Len(segments)
    /\ Phase = "Done" => transcript = ExpectedTranscript /\ stdout # <<>>
    /\ Phase # "Done" => stdout = <<>>

\* C10: every step moves along NotStarted, SessionConstructed,
\* InferenceIssued, SegmentsConsumed, Done, or leaves for Failed; the two
\* runtime calls are made at most once each and in that order; a step that
\* consumes a segment adds it after the ones already consumed and never
\* touches those; Done holds the transcript of all segments consumed;
\* nothing changes once the run has Failed or is Done.
C10_LinearPath ==
    /\ []PhaseShape
    /\ [][ /\ <<Phase, Phase'>> \in PhaseSteps
           /\ SubSeq(segments', 1, Len(segments)) = segments
           /\ SubSeq(transcript_parts', 1, Len(transcript_parts)) = transcript_parts
           /\ SubSeq(calls', 1, Len(calls)) = calls
           /\ Len(segments') <= Len(segments) + 1
           /\ Phase # "InferenceIssued" => segments' = segments ]_vars

\* a run that consumed two segments and finished
C10_Witness ==
    /\ Phase = "Done"
    /\ Len(segments) = 2
    /\ Len(calls) = 2
====
